---- MODULE Spec2Model ----
(***************************************************************************)
(* Model of the storefront catalog: the ProductCard component              *)
(* (src/src/components/ProductCard.tsx) and the HomePage that loads the    *)
(* product collection and composes the cards (src/unnamed/part_000).       *)
(*                                                                         *)
(* An optional value (an omitted prop, a null product, a null category)    *)
(* is the empty sequence <<>>; a present value v is <<v>>.                 *)
(***************************************************************************)
EXTENDS Integers, Sequences, FiniteSets, TLC

VARIABLES
    \* ---- one ProductCard driven by an arbitrary caller ----
    cardMounted,   \* the card instance exists
    props,         \* the props of its last render
    inLink,        \* the caller wrapped the card in a navigational link
    imageLoading,  \* useState(true), ProductCard.tsx:35
    lastEvent,     \* the last event delivered to the card and what it did
    \* ---- the HomePage ----
    pageInst,      \* 0 when unmounted, else the mounted instance's number
    mountCount,    \* instances created so far
    products,      \* useState<Product[]>([]), part_000:24
    response,      \* per instance: the state of its fetch('/api/product')
    fetchCount,    \* per instance: fetches issued
    cardImg,       \* imageLoading of every card the page renders
    errorLog,      \* console.error lines
    faults,        \* unhandled promise rejections
    staleSets,     \* setState calls made on an instance that is unmounted
    pageEvent      \* the last thing that happened to the page

cardVars == <<cardMounted, props, inLink, imageLoading, lastEvent>>
pageVars == <<pageInst, mountCount, products, response, fetchCount, cardImg,
              errorLog, faults, staleSets, pageEvent>>
vars == <<cardMounted, props, inLink, imageLoading, lastEvent,
          pageInst, mountCount, products, response, fetchCount, cardImg,
          errorLog, faults, staleSets, pageEvent>>

\* ------------------------------------------------------------------ bounds
MaxStock == 7
MaxNegStock == 2
MaxProductId == 2
MaxMounts == 2

\* ------------------------------------------------------- program constants
LowStockMax == 5

\* ---------------------------------------------------------------- values
Some(v) == <<v>>
None == <<>>
Default(opt, d) == IF opt = None THEN d ELSE opt[1]

Stocks == (0 - MaxNegStock)..MaxStock
ProductIds == 1..MaxProductId
Categories == {None, Some([id |-> 1, name |-> "Shoes"])}
Products == [id : ProductIds, stock : Stocks, category : Categories]

ViewModes == {"grid", "list"}
PropsSet == [product : {None} \cup {Some(p) : p \in Products},
             isLiked : {None, Some(TRUE), Some(FALSE)},
             onLikeToggle : {None, Some("onLikeToggle")},
             viewMode : {None} \cup {Some(m) : m \in ViewModes},
             onQuickView : {None, Some("onQuickView")}]

\* The props of a card that is not mounted.
NoProps == [product |-> None, isLiked |-> None, onLikeToggle |-> None,
            viewMode |-> None, onQuickView |-> None]

\* Arguments handed to a callback.
NumberArg(n) == [kind |-> "number", value |-> n]
ClickEvent == [kind |-> "event", value |-> 0]
Call(fn, args) == [fn |-> fn, args |-> args]

\* ------------------------------------------------------------ ProductCard
\* Destructuring defaults of the parameter list.
IsLikedOf(p) == Default(p.isLiked, FALSE)
ViewModeOf(p) == Default(p.viewMode, "grid")

isOutOfStock(product) == product.stock <= 0

M_isLowStock(product) == product.stock >= 0 /\ product.stock <= LowStockMax
isLowStock(product) == product.stock > 0 /\ product.stock <= LowStockMax

\* The fallback label is the source's Mongolian word for "uncategorized",
\* transliterated.
CategoryLabel(product) ==
    IF product.category = None THEN "Angilalgui" ELSE product.category[1].name

StockClass(product) ==
    IF isOutOfStock(product) THEN "text-red-600"
    ELSE IF isLowStock(product) THEN "text-orange-600"
    ELSE "text-green-600"

StockLabel(product) ==
    IF isOutOfStock(product) THEN "Out of Stock"
    ELSE IF isLowStock(product) THEN "Only " \o ToString(product.stock) \o " left"
    ELSE ToString(product.stock) \o " in stock"

Href(product) == "/shop/product/" \o ToString(product.id)

RenderList(p, loading) ==
    LET product == p.product[1] IN
    [branch |-> "list",
     href |-> Href(product),
     spinner |-> loading,
     imageOpacity |-> IF loading THEN "opacity-0" ELSE "opacity-100",
     overlay |-> isOutOfStock(product),
     liked |-> IsLikedOf(p),
     categoryLabel |-> CategoryLabel(product),
     description |-> TRUE,
     stockClass |-> StockClass(product),
     stockLabel |-> StockLabel(product),
     controlsHoverOnly |-> FALSE,
     cartDisabled |-> isOutOfStock(product),
     cartLabel |-> IF isOutOfStock(product) THEN "Unavailable" ELSE "Add to Cart"]

M_RenderGrid(p, loading) ==
    LET product == p.product[1] IN
    [branch |-> "grid",
     href |-> Href(product),
     spinner |-> loading,
     imageOpacity |-> IF loading THEN "opacity-0" ELSE "opacity-100",
     overlay |-> isOutOfStock(product),
     liked |-> IsLikedOf(p),
     categoryLabel |-> CategoryLabel(product),
     description |-> FALSE,
     stockClass |-> StockClass(product),
     stockLabel |-> StockLabel(product),
     controlsHoverOnly |-> TRUE,
     cartDisabled |-> isOutOfStock(product) \/ isLowStock(product),
     cartLabel |-> IF isOutOfStock(product) THEN "Unavailable" ELSE "Add to Cart"]
RenderGrid(p, loading) ==
    LET product == p.product[1] IN
    [branch |-> "grid",
     href |-> Href(product),
     spinner |-> loading,
     imageOpacity |-> IF loading THEN "opacity-0" ELSE "opacity-100",
     overlay |-> isOutOfStock(product),
     liked |-> IsLikedOf(p),
     categoryLabel |-> CategoryLabel(product),
     description |-> FALSE,
     stockClass |-> StockClass(product),
     stockLabel |-> StockLabel(product),
     controlsHoverOnly |-> TRUE,
     cartDisabled |-> isOutOfStock(product),
     cartLabel |-> IF isOutOfStock(product) THEN "Unavailable" ELSE "Add to Cart"]

NothingRendered == [branch |-> "none"]

\* The component function: what one render returns.
ProductCard(p, loading) ==
    IF p.product = None THEN NothingRendered
    ELSE IF ViewModeOf(p) = "list" THEN RenderList(p, loading)
    ELSE RenderGrid(p, loading)

\* useState(true): the initial value on the instance's first render, the
\* stored value on every later render of the same instance.
M_UseStateImageLoading(firstRender, stored) == TRUE
UseStateImageLoading(firstRender, stored) == IF firstRender THEN TRUE ELSE stored

\* onLoad={() => setImageLoading(false)}
M_OnLoad(loading) == ~loading
OnLoad(loading) == FALSE

\* handleQuickView: the calls it makes, in order.
M_handleQuickView(p) ==
    <<Call("stopPropagation", <<>>)>>
    \o (IF p.onQuickView /= None
        THEN <<Call("onQuickView", <<NumberArg(p.product[1].id)>>)>>
        ELSE <<>>)
handleQuickView(p) ==
    <<Call("preventDefault", <<>>), Call("stopPropagation", <<>>)>>
    \o (IF p.onQuickView /= None
        THEN <<Call("onQuickView", <<NumberArg(p.product[1].id)>>)>>
        ELSE <<>>)

\* onClick={onLikeToggle}: the prop itself is the click handler, so it is
\* called as every click handler is, with the click event.
LikeClick(p) ==
    IF p.onLikeToggle /= None THEN <<Call("onLikeToggle", <<ClickEvent>>)>> ELSE <<>>

Targets == {"image", "name", "quickView", "like", "addToCart"}

\* The click handler of each control of the rendered tree.
OnClick(p, target) ==
    IF target = "quickView" THEN handleQuickView(p)
    ELSE IF target = "like" THEN LikeClick(p)
    ELSE <<>>

\* The controls that sit inside one of the card's own <Link>s.
InsideCardLink(target) == target \in {"image", "name"}

Called(trace, fn) == \E i \in 1..Len(trace) : trace[i].fn = fn
CountCalls(trace, fn) == Cardinality({i \in 1..Len(trace) : trace[i].fn = fn})

\* Where a click ends up: the enclosing link is followed unless the default
\* action was prevented.
Navigation(trace, target, wrapped) ==
    IF Called(trace, "preventDefault") THEN "none"
    ELSE IF InsideCardLink(target) THEN "product"
    ELSE IF wrapped THEN "wrapper"
    ELSE "none"

Event(kind, target, trace, nav) ==
    [kind |-> kind, target |-> target, trace |-> trace, nav |-> nav]

Rendered == ProductCard(props, imageLoading)

\* ---------------------------------------------------- ProductCard actions
CardMount ==
    /\ ~cardMounted
    /\ \E p \in PropsSet, w \in BOOLEAN :
         /\ props' = p
         /\ inLink' = w
    /\ cardMounted' = TRUE
    /\ imageLoading' = UseStateImageLoading(TRUE, imageLoading)
    /\ lastEvent' = Event("mount", "none", <<>>, "none")
    /\ UNCHANGED pageVars

CardUnmount ==
    /\ cardMounted
    /\ cardMounted' = FALSE
    /\ props' = NoProps
    /\ inLink' = FALSE
    /\ lastEvent' = Event("unmount", "none", <<>>, "none")
    /\ UNCHANGED imageLoading
    /\ UNCHANGED pageVars

\* The caller renders the same instance again with one prop changed.
Rerender(field, value) ==
    /\ cardMounted
    /\ props[field] /= value
    /\ props' = [props EXCEPT ![field] = value]
    /\ imageLoading' = UseStateImageLoading(FALSE, imageLoading)
    /\ lastEvent' = Event("rerender", field, <<>>, "none")
    /\ UNCHANGED <<cardMounted, inLink>>
    /\ UNCHANGED pageVars

SetProduct == \E v \in {None} \cup {Some(p) : p \in Products} : Rerender("product", v)
SetViewMode == \E v \in {None} \cup {Some(m) : m \in ViewModes} : Rerender("viewMode", v)
SetIsLiked == \E v \in {None, Some(TRUE), Some(FALSE)} : Rerender("isLiked", v)
SetOnLikeToggle == \E v \in {None, Some("onLikeToggle")} : Rerender("onLikeToggle", v)
SetOnQuickView == \E v \in {None, Some("onQuickView")} : Rerender("onQuickView", v)

\* The image collaborator signals that the resource is ready.
ImageLoad ==
    /\ cardMounted
    /\ Rendered.branch /= "none"
    /\ imageLoading' = OnLoad(imageLoading)
    /\ lastEvent' = Event("load", "image", <<>>, "none")
    /\ UNCHANGED <<cardMounted, props, inLink>>
    /\ UNCHANGED pageVars

\* A click on one control; a disabled button receives none.
Click ==
    /\ cardMounted
    /\ Rendered.branch /= "none"
    /\ \E target \in Targets :
         /\ ~(target = "addToCart" /\ Rendered.cartDisabled)
         /\ LET trace == OnClick(props, target) IN
            lastEvent' = Event("click", target, trace,
                               Navigation(trace, target, inLink))
    /\ UNCHANGED <<cardMounted, props, inLink, imageLoading>>
    /\ UNCHANGED pageVars

CardInit ==
    /\ cardMounted = FALSE
    /\ props = NoProps
    /\ inLink = FALSE
    /\ imageLoading = TRUE
    /\ lastEvent = Event("init", "none", <<>>, "none")


\* ---------------------------------------------------------------- HomePage
Sections == {"featured", "all"}

\* The catalog entries the product-listing collaborator can return: one
\* product per id, out of stock (id 1, no category), low stock, in stock, ...
PageProduct(i) ==
    [id |-> i, stock |-> 3 * (i - 1),
     category |-> IF i = 1 THEN None ELSE Some([id |-> 1, name |-> "Shoes"])]

RECURSIVE SeqsOver(_, _)
\* The sequences of at most n distinct elements of S.
SeqsOver(S, n) ==
    IF n = 0 THEN {<<>>}
    ELSE {<<>>} \cup UNION {{<<x>> \o t : t \in SeqsOver(S \ {x}, n - 1)} : x \in S}

Catalogs == SeqsOver({PageProduct(i) : i \in ProductIds}, MaxProductId)

\* How a fetch can end: a success status with a product list, a non-success
\* status, a rejected request, a success status whose body is not JSON.
Outcomes == {"ok", "failed", "rejected", "badBody"}

Pending == [state |-> "pending", data |-> <<>>]

\* fetchFeaturedProducts from the point its fetch settles: the state update
\* it makes (if any), what it logs, and whether its promise rejects.
M_fetchFeaturedProducts(outcome, data) ==
    IF outcome = "rejected" THEN [set |-> None, log |-> <<>>, fault |-> TRUE]
    ELSE IF outcome = "ok" THEN [set |-> Some(data), log |-> <<>>, fault |-> FALSE]
    ELSE IF outcome = "badBody" THEN [set |-> None, log |-> <<>>, fault |-> TRUE]
    ELSE [set |-> Some(<<PageProduct(1)>>), log |-> <<"Product fetch error">>,
          fault |-> FALSE]
fetchFeaturedProducts(outcome, data) ==
    IF outcome = "rejected" THEN [set |-> None, log |-> <<>>, fault |-> TRUE]
    ELSE IF outcome = "ok" THEN [set |-> Some(data), log |-> <<>>, fault |-> FALSE]
    ELSE IF outcome = "badBody" THEN [set |-> None, log |-> <<>>, fault |-> TRUE]
    ELSE [set |-> None, log |-> <<"Product fetch error">>, fault |-> FALSE]

\* setProducts(data): the new value of the products state.
M_SetProducts(prev, data) == SelectSeq(data, LAMBDA p : p.stock > 0)
SetProducts(prev, data) == data

\* useEffect(..., []): the effect runs after the first render only.
M_EffectRuns(firstRender) == TRUE
EffectRuns(firstRender) == firstRender

\* <ProductCard key={product.id} product={product} />
PageCardProps(product) == [NoProps EXCEPT !.product = Some(product)]

Keys(prods) == {prods[i].id : i \in 1..Len(prods)}

\* The cards' own state after a render of prods: a card whose key was there
\* before keeps its state, a new key mounts a new card.
ReconcileCards(old, prods) ==
    [c \in Sections \X Keys(prods) |->
        IF c \in DOMAIN old
        THEN UseStateImageLoading(FALSE, old[c])
        ELSE UseStateImageLoading(TRUE, TRUE)]

\* products.map((product) => <ProductCard ... />)
Section(section, prods, imgs) ==
    [i \in 1..Len(prods) |->
        ProductCard(PageCardProps(prods[i]), imgs[<<section, prods[i].id>>])]

\* What HomePage returns: the two product sections.
HomePage(prods, imgs) ==
    [featured |-> Section("featured", prods, imgs),
     all |-> Section("all", prods, imgs)]

PageEvent(kind, nav) == [kind |-> kind, nav |-> nav]

\* ------------------------------------------------------- HomePage actions
\* First render of a new instance, then its effect.
PageMount ==
    /\ pageInst = 0
    /\ mountCount < MaxMounts
    /\ mountCount' = mountCount + 1
    /\ pageInst' = mountCount + 1
    /\ products' = <<>>
    /\ cardImg' = ReconcileCards(<<>>, <<>>)
    /\ IF EffectRuns(TRUE)
       THEN /\ response' = Append(response, Pending)
            /\ fetchCount' = Append(fetchCount, 1)
       ELSE /\ response' = Append(response, [state |-> "none", data |-> <<>>])
            /\ fetchCount' = Append(fetchCount, 0)
    /\ pageEvent' = PageEvent("mount", "none")
    /\ UNCHANGED <<errorLog, faults, staleSets>>
    /\ UNCHANGED cardVars

\* The instance and the cards it rendered are destroyed; a fetch that is
\* still pending stays in flight.
PageUnmount ==
    /\ pageInst /= 0
    /\ pageInst' = 0
    /\ products' = <<>>
    /\ cardImg' = ReconcileCards(<<>>, <<>>)
    /\ response' = [response EXCEPT ![pageInst].data = <<>>]
    /\ pageEvent' = PageEvent("unmount", "none")
    /\ UNCHANGED <<mountCount, fetchCount, errorLog, faults, staleSets>>
    /\ UNCHANGED cardVars

\* The fetch of instance i settles and fetchFeaturedProducts runs on.
FetchSettles ==
    \E i \in 1..mountCount, outcome \in Outcomes, data \in Catalogs :
      /\ response[i].state = "pending"
      /\ outcome /= "ok" => data = <<>>
      /\ LET eff == fetchFeaturedProducts(outcome, data)
             live == i = pageInst
             rerenders == live /\ eff.set /= None
             refetch == rerenders /\ EffectRuns(FALSE)
         IN
         /\ products' = IF rerenders THEN SetProducts(products, eff.set[1])
                        ELSE products
         /\ cardImg' = IF rerenders THEN ReconcileCards(cardImg, products')
                       ELSE cardImg
         /\ staleSets' = IF eff.set /= None /\ ~live THEN staleSets + 1
                         ELSE staleSets
         /\ errorLog' = errorLog \o eff.log
         /\ faults' = IF eff.fault THEN faults + 1 ELSE faults
         /\ response' = [response EXCEPT ![i] =
                            IF refetch THEN Pending
                            ELSE [state |-> outcome,
                                  data |-> IF live THEN data ELSE <<>>]]
         /\ fetchCount' = [fetchCount EXCEPT ![i] = IF refetch THEN @ + 1 ELSE @]
      /\ pageEvent' = PageEvent("settle", "none")
      /\ UNCHANGED <<pageInst, mountCount>>
      /\ UNCHANGED cardVars

\* The image of one rendered card finishes loading.
PageImageLoad ==
    /\ pageInst /= 0
    /\ \E c \in DOMAIN cardImg :
         cardImg' = [cardImg EXCEPT ![c] = OnLoad(@)]
    /\ pageEvent' = PageEvent("load", "none")
    /\ UNCHANGED <<pageInst, mountCount, products, response, fetchCount,
                   errorLog, faults, staleSets>>
    /\ UNCHANGED cardVars

\* A click on a control of one rendered card; the page passes no callbacks
\* and wraps no card in a link.
PageCardClick ==
    /\ pageInst /= 0
    /\ \E s \in Sections, i \in 1..Len(products), target \in Targets :
         LET card == HomePage(products, cardImg)[s][i]
             trace == OnClick(PageCardProps(products[i]), target)
         IN
         /\ ~(target = "addToCart" /\ card.cartDisabled)
         /\ pageEvent' = PageEvent("click", Navigation(trace, target, FALSE))
    /\ UNCHANGED <<pageInst, mountCount, products, response, fetchCount,
                   cardImg, errorLog, faults, staleSets>>
    /\ UNCHANGED cardVars

PageInit ==
    /\ pageInst = 0
    /\ mountCount = 0
    /\ products = <<>>
    /\ response = <<>>
    /\ fetchCount = <<>>
    /\ cardImg = ReconcileCards(<<>>, <<>>)
    /\ errorLog = <<>>
    /\ faults = 0
    /\ staleSets = 0
    /\ pageEvent = PageEvent("init", "none")

\* ---------------------------------------------------------- specifications
Init == CardInit /\ PageInit

\* A ProductCard under an arbitrary caller.
Next ==
    \/ CardMount
    \/ CardUnmount
    \/ SetProduct
    \/ SetViewMode
    \/ SetIsLiked
    \/ SetOnLikeToggle
    \/ SetOnQuickView
    \/ ImageLoad
    \/ Click

Spec == Init /\ [][Next]_vars

\* The HomePage and the cards it renders.
PageNext ==
    \/ PageMount
    \/ PageUnmount
    \/ FetchSettles
    \/ PageImageLoad
    \/ PageCardClick

PageSpec == Init /\ [][PageNext]_vars

\* ------------------------------------------------------------------ claims
HasCard == cardMounted /\ props.product /= None
Stock == props.product[1].stock
ClickOn(target) == lastEvent.kind = "click" /\ lastEvent.target = target

\* C1: for every integer stock s the derived classification puts s in
\* exactly one class: out-of-stock iff s <= 0, low-stock iff 0 < s <= 5,
\* in-stock (neither flag) iff s > 5; the two flags are never both true.
C1_StockPartition ==
    HasCard =>
        LET out == isOutOfStock(props.product[1])
            low == isLowStock(props.product[1])
        IN /\ out <=> Stock <= 0
           /\ low <=> (0 < Stock /\ Stock <= 5)
           /\ (~out /\ ~low) <=> Stock > 5
           /\ ~(out /\ low)

C1_Witness ==
    /\ HasCard
    /\ Stock = 0
    /\ isOutOfStock(props.product[1])
    /\ ~isLowStock(props.product[1])

\* C2: in grid and in list mode alike the stock-dependent outputs are the
\* same function of the stock s: control disabled, labelled "Unavailable"
\* and overlay present iff s <= 0 (otherwise enabled, "Add to Cart", no
\* overlay); label "Out of Stock" for s <= 0, "Only s left" in the orange
\* severity for 0 < s <= 5, "s in stock" in the green severity for s > 5.
C2_StockOutputs ==
    HasCard =>
        /\ Rendered.branch = ViewModeOf(props)
        /\ Rendered.cartDisabled <=> Stock <= 0
        /\ Rendered.overlay <=> Stock <= 0
        /\ Rendered.cartLabel = IF Stock <= 0 THEN "Unavailable" ELSE "Add to Cart"
        /\ Stock <= 0 =>
             /\ Rendered.stockLabel = "Out of Stock"
             /\ Rendered.stockClass = "text-red-600"
        /\ (0 < Stock /\ Stock <= 5) =>
             /\ Rendered.stockLabel = "Only " \o ToString(Stock) \o " left"
             /\ Rendered.stockClass = "text-orange-600"
        /\ Stock > 5 =>
             /\ Rendered.stockLabel = ToString(Stock) \o " in stock"
             /\ Rendered.stockClass = "text-green-600"

C2_Witness ==
    /\ HasCard
    /\ Stock = 3
    /\ Rendered.branch = "grid"
    /\ Rendered.stockLabel = "Only 3 left"
    /\ Rendered.stockClass = "text-orange-600"
    /\ ~Rendered.cartDisabled

\* C3: when the fetch of the mounted page ends with a non-success status,
\* products is left as it was and stays the empty sequence, neither section
\* renders a card, the diagnostic is logged and no fault is raised.
C3_FailedInv ==
    (pageInst /= 0 /\ response[pageInst].state = "failed") =>
        /\ products = <<>>
        /\ HomePage(products, cardImg).featured = <<>>
        /\ HomePage(products, cardImg).all = <<>>
        /\ Len(errorLog) >= 1

C3_FailedStep ==
    \A i \in 1..mountCount :
        (/\ i = pageInst
         /\ response[i].state = "pending"
         /\ response'[i].state = "failed") =>
            /\ products' = products
            /\ errorLog' = Append(errorLog, "Product fetch error")
            /\ faults' = faults
            /\ staleSets' = staleSets

C3_FetchFailure == []C3_FailedInv /\ [][C3_FailedStep]_vars

C3_Witness ==
    /\ pageInst /= 0
    /\ response[pageInst].state = "failed"
    /\ pageEvent.kind = "settle"
    /\ products = <<>>
    /\ errorLog /= <<>>

\* C4: products is the empty sequence (no successful fetch yet) or exactly
\* the sequence the successful fetch returned, in its order; each section
\* renders one grid-mode card per element of products, in that order.
C4_Wholesale ==
    /\ pageInst = 0 => products = <<>>
    /\ pageInst /= 0 =>
         /\ response[pageInst].state = "ok" => products = response[pageInst].data
         /\ response[pageInst].state /= "ok" => products = <<>>
         /\ \A s \in Sections :
              LET cards == HomePage(products, cardImg)[s] IN
              /\ DOMAIN cards = 1..Len(products)
              /\ \A i \in 1..Len(products) :
                   /\ cards[i].branch = "grid"
                   /\ cards[i].href = Href(products[i])
                   /\ cards[i].stockLabel = StockLabel(products[i])

C4_Witness ==
    /\ pageInst /= 0
    /\ response[pageInst].state = "ok"
    /\ Len(products) = 2
    /\ products[1].id = 2
    /\ products[1].stock > 0
    /\ products[2].stock = 0
    /\ HomePage(products, cardImg).all[1].href = "/shop/product/2"

\* C5: a click on the quick-view control, in either mode, first prevents
\* the default action and stops propagation, navigates nowhere, and calls
\* onQuickView once with product.id when supplied, nothing otherwise.
C5_QuickView ==
    ClickOn("quickView") =>
        LET t == lastEvent.trace IN
        /\ Len(t) >= 2
        /\ t[1] = Call("preventDefault", <<>>)
        /\ t[2] = Call("stopPropagation", <<>>)
        /\ lastEvent.nav = "none"
        /\ props.onQuickView /= None =>
             /\ Len(t) = 3
             /\ t[3] = Call("onQuickView", <<NumberArg(props.product[1].id)>>)
        /\ props.onQuickView = None => Len(t) = 2

C5_Witness ==
    /\ ClickOn("quickView")
    /\ inLink
    /\ Rendered.branch = "list"
    /\ props.onQuickView /= None
    /\ CountCalls(lastEvent.trace, "onQuickView") = 1
    /\ lastEvent.nav = "none"

\* C6: a click on the like control calls onLikeToggle with no arguments (no
\* event object, no payload), and the card changes neither isLiked nor any
\* other state of its own.
C6_LikeArgs ==
    (ClickOn("like") /\ props.onLikeToggle /= None) =>
        lastEvent.trace = <<Call("onLikeToggle", <<>>)>>

C6_LikeStep ==
    (cardMounted /\ ClickOn("like")') =>
        /\ props' = props
        /\ imageLoading' = imageLoading

C6_LikeNoPayload == []C6_LikeArgs /\ [][C6_LikeStep]_vars

\* C7: within one mount imageLoading starts true, is false after the load
\* signal and then stays false under every further event; the spinner is
\* shown and the image transparent exactly while it is true.
C7_RenderInv ==
    HasCard =>
        /\ Rendered.spinner = imageLoading
        /\ Rendered.imageOpacity = IF imageLoading THEN "opacity-0" ELSE "opacity-100"

C7_Step ==
    /\ (~cardMounted /\ cardMounted') => imageLoading'
    /\ (cardMounted /\ cardMounted' /\ lastEvent'.kind = "load") => ~imageLoading'
    /\ (cardMounted /\ cardMounted' /\ ~imageLoading) => ~imageLoading'

C7_ImageLoading == []C7_RenderInv /\ [][C7_Step]_vars

C7_Witness ==
    /\ HasCard
    /\ ~imageLoading
    /\ lastEvent.kind = "click"
    /\ ~Rendered.spinner
    /\ Rendered.imageOpacity = "opacity-100"

\* C8: a card with a product renders exactly one branch, list iff viewMode
\* is list, grid otherwise and by default.
C8_BranchInv ==
    HasCard =>
        /\ Rendered.branch \in {"grid", "list"}
        /\ Rendered.branch = "list" <=> props.viewMode = Some("list")

ViewModeSwitch ==
    /\ HasCard
    /\ HasCard'
    /\ ViewModeOf(props') /= ViewModeOf(props)

\* C8 as stated: after a switch of viewMode the newly rendered branch starts
\* again at loading.
C8_SwitchResets ==
    []C8_BranchInv /\ [][ViewModeSwitch => imageLoading']_vars

\* C8 amended: after a switch of viewMode the other branch is rendered with
\* the image-loading state the card had before the switch; only a new mount
\* resets it.
C8_SwitchCarriesOver ==
    /\ []C8_BranchInv
    /\ [][ViewModeSwitch =>
            /\ imageLoading' = imageLoading
            /\ Rendered'.branch /= Rendered.branch]_vars
    /\ [][(~cardMounted /\ cardMounted') => imageLoading']_vars

C8_Witness ==
    /\ HasCard
    /\ lastEvent.kind = "rerender"
    /\ lastEvent.target = "viewMode"
    /\ Rendered.branch = "list"
    /\ ~imageLoading
    /\ ~Rendered.spinner

\* C9: once the page (or a card) is unmounted, the completion of its pending
\* fetch (or image load) makes no state update on the unmounted instance.
C9_NoStaleUpdate == staleSets = 0

\* C10: every mount issues exactly one fetch, whatever happens afterwards;
\* a fetch that has settled is never issued again.
C10_Inv ==
    /\ Len(fetchCount) = mountCount
    /\ \A i \in 1..mountCount : fetchCount[i] = 1

C10_Step ==
    \A i \in 1..mountCount :
        response[i].state /= "pending" => response'[i].state /= "pending"

C10_SingleFetch == []C10_Inv /\ [][C10_Step]_vars

C10_Witness ==
    /\ pageInst = 2
    /\ response[1].state = "failed"
    /\ response[2].state = "ok"
    /\ products /= <<>>
    /\ pageEvent.kind = "click"
    /\ fetchCount = <<1, 1>>
====
